---- MODULE Spec2Model ----
(***************************************************************************)
(* Roster reconstruction, settlement-day mapping, valuation cache and      *)
(* salary ledger of the Comunio intelligence tool (backend/*.py).          *)
(***************************************************************************)
EXTENDS Integers, Sequences, FiniteSets, TLC

VARIABLES
    seed_date,        \* anchor date of the snapshot (load_seed_squads)
    seed_squads,      \* the caller's snapshot dict: user id -> set of tradable ids
    transfer_events,  \* the caller's event list: <<datetime, from, to, tradable>>
    target_date,      \* target_date of the last reconstruct call
    cutoff_time,      \* cutoff_time of the last reconstruct call (None or <<hour>>)
    squads,           \* the dict returned by the last reconstruct call
    probe,            \* arguments and result of the first reconstruct call
    pc,               \* which operation ran last
    stamp,            \* the datetime given to the settlement-day mapper
    settled,          \* transfer_settlement_date(stamp)
    today,            \* effective_today() at the instant stamp
    cache,            \* quote cache: tradable id -> (ISO date key -> price)
    provider,         \* what get_quote_history returns per tradable id
    asked,            \* <<tradable id, date>> of the last lookup
    value,            \* what the last lookup returned
    fetches,          \* get_quote_history calls made by the last operation
    salary_dates,     \* the debit days given to the salary computation
    salary_by_user,   \* what the salary computation returned
    quotes,           \* <<tradable id, date, value>> of the lookups it made
    day_fees,         \* <<user id, debit day, day_salary>> of the pass
    news,             \* the entries of the news feed, as get_news_page lists them
    seed_status,      \* the seed file: "present", "missing" or "malformed"
    standings,        \* balance_from_api of each manager row (None or <<budget>>)
    user_info,        \* root "user" of the API: None or <<user id, budget>>
    transfer_deltas,  \* the <<user id, delta>> list of the transfer news
    balance_by_user_id,      \* fetch_all: balances from news and salaries
    player_count_by_user_id, \* fetch_all: player count today
    balance,          \* _build_league_overview: balance per manager, before payouts
    outcome,          \* "none", "ok" or "raised" (an exception left the call)
    news_cache,       \* data/cache/news_transfer.json: None or the stored payload
    clock,            \* time.time()
    feed_ok,          \* whether get_news_page answers or raises
    quote_cache_file, \* the persisted quote cache: str(tradable id) -> row
    fetched,          \* tradable ids the lookups gave to get_quote_history, in call order
    passes            \* per concurrent fetch_all pass: its position, its
                      \* in-memory quote cache and the entries it appended

reconVars == <<seed_date, seed_squads, transfer_events, target_date, cutoff_time,
               squads, probe>>
settleVars == <<stamp, settled, today>>
cacheVars == <<cache, provider, asked, value, fetches>>
ledgerVars == <<salary_dates, salary_by_user, quotes, day_fees>>
balanceVars == <<news, seed_status, standings, user_info, transfer_deltas,
                 balance_by_user_id, player_count_by_user_id, balance, outcome>>
newsVars == <<news_cache, clock, feed_ok>>
passVars == <<quote_cache_file, fetched, passes>>

vars == <<reconVars, settleVars, cacheVars, ledgerVars, balanceVars, newsVars,
          passVars, pc>>

----------------------------------------------------------------------------
(* Program constants *)

COMPUTER_USER_ID == 1
CUTOFF_HOUR_MEZ == 4
BERLIN_UTC_OFFSET == 1
SALARY_BASE == 500
START_BUDGET == 40000000
NEWS_CACHE_TTL_SECONDS == 900

(* Bounds of the model *)

MaxDay == 2
MaxEvents == 2
MaxPureEvents == 1
MaxPoints == 1
MaxNews == 2
MaxFetches == 3
MaxPassLookups == 1

Days == 0..MaxDay
Managers == {COMPUTER_USER_ID, 2, 3}
\* tradable ids: 7 changes hands in the logs of the model, 8 never does
Assets == {7, 8}
TradedAssets == {7}
Hours == {CUTOFF_HOUR_MEZ - 1, CUTOFF_HOUR_MEZ}
Zones == {"naive", "utc"}
\* from -> to pairs an event of the model may carry: a purchase from the
\* computer, a sale between users and the sale back
Moves == {<<COMPUTER_USER_ID, 2>>, <<2, 3>>, <<3, 2>>}

None == << >>
SALARY_CUTOFF_TIME == <<CUTOFF_HOUR_MEZ>>

----------------------------------------------------------------------------
(* datetime: a wall clock (day, hour) and a zone; "naive" has no tzinfo,   *)
(* "utc" is what fromisoformat gives for a "...Z" / "+00:00" stamp.        *)

DateTime(d, h, z) == [day |-> d, hour |-> h, tz |-> z]

\* dt.date()
DateOf(dt) == dt.day

\* hours on the datetime's own wall clock; the order datetimes of one zone
\* compare in
WallHours(dt) == dt.day * 24 + dt.hour

\* an aware datetime moved to Europe/Berlin with tzinfo dropped; a naive one as is
to_naive_berlin(dt) ==
    IF dt.tz # "naive"
    THEN LET w == WallHours(dt) + BERLIN_UTC_OFFSET
         IN  DateTime(w \div 24, w % 24, "naive")
    ELSE dt

\* datetime.combine(date, time)
Combine(d, t) == DateTime(d, t[1], "naive")

----------------------------------------------------------------------------
(* The objects a call works on.  A heap holds the dicts (user id -> the     *)
(* reference of a set object), the set objects and the lists, so that a     *)
(* write through one name is seen through every name of the same object.    *)

HeapOf(ss, te) ==
    [dicts |-> [n \in {"seed_squads"} |->
                    [u \in DOMAIN ss |-> <<"seed_squads", u>>]],
     sets  |-> [r \in {<<"seed_squads", u>> : u \in DOMAIN ss} |-> ss[r[2]]],
     lists |-> [n \in {"transfer_events"} |-> te]]

\* the value of dict d: user id -> set of tradable ids
Deref(h, d) == [u \in DOMAIN h.dicts[d] |-> h.sets[h.dicts[d][u]]]

\* a shallow copy: a new dict that shares the set objects of the source
squads_copy_shallow(h, src, dst) ==
    [h EXCEPT !.dicts = @ @@ (dst :> h.dicts[src])]

\* {uid: set(s) for uid, s in squads.items()}: a new dict of new sets
squads_copy(h, src, dst) ==
    [h EXCEPT
       !.dicts = @ @@ (dst :> [u \in DOMAIN h.dicts[src] |-> <<dst, u>>]),
       !.sets  = @ @@ [r \in {<<dst, u>> : u \in DOMAIN h.dicts[src]} |->
                          h.sets[h.dicts[src][r[2]]]]]

\* d.setdefault(uid, set()): the key is added with a new empty set if absent
setdefault(h, d, uid) ==
    IF uid \in DOMAIN h.dicts[d]
    THEN h
    ELSE [h EXCEPT !.dicts[d] = @ @@ (uid :> <<d, uid>>),
                   !.sets = @ @@ (<<d, uid>> :> {})]

\* d.setdefault(uid, set()).discard(pid)
discard(h, d, uid, pid) ==
    LET g == setdefault(h, d, uid)
    IN  [g EXCEPT !.sets[g.dicts[d][uid]] = @ \ {pid}]

\* if uid in d: d[uid].add(pid): no key is made for a user the dict lacks
add_existing_key_only(h, d, uid, pid) ==
    IF uid \in DOMAIN h.dicts[d]
    THEN [h EXCEPT !.sets[h.dicts[d][uid]] = @ \cup {pid}]
    ELSE h

\* d.setdefault(uid, set()).add(pid)
add(h, d, uid, pid) ==
    LET g == setdefault(h, d, uid)
    IN  [g EXCEPT !.sets[g.dicts[d][uid]] = @ \cup {pid}]

----------------------------------------------------------------------------
(* list.sort(key=lambda x: x[0]) and list.sort(key=..., reverse=True):      *)
(* both are stable, elements with equal keys keep their list order.         *)

RECURSIVE InsertAsc(_, _)
InsertAsc(x, s) ==
    IF s = << >> THEN <<x>>
    ELSE IF WallHours(x[1]) < WallHours(Head(s)[1])
         THEN <<x>> \o s
         ELSE <<Head(s)>> \o InsertAsc(x, Tail(s))

RECURSIVE InsertDesc(_, _)
InsertDesc(x, s) ==
    IF s = << >> THEN <<x>>
    ELSE IF WallHours(x[1]) > WallHours(Head(s)[1])
         THEN <<x>> \o s
         ELSE <<Head(s)>> \o InsertDesc(x, Tail(s))

RECURSIVE SortAsc(_)
SortAsc(s) ==
    IF s = << >> THEN << >>
    ELSE InsertAsc(s[Len(s)], SortAsc(SubSeq(s, 1, Len(s) - 1)))

RECURSIVE SortDesc(_)
SortDesc(s) ==
    IF s = << >> THEN << >>
    ELSE InsertDesc(s[Len(s)], SortDesc(SubSeq(s, 1, Len(s) - 1)))

----------------------------------------------------------------------------
(* reconstruct_squads_at_date *)

\* the forward selection with the anchor date itself included
ForwardEvents_from_anchor(sd, te, td, ct) ==
    IF ct # None
    THEN LET cutoff_dt == Combine(td, ct)
             keep(e) == /\ WallHours(to_naive_berlin(e[1])) < WallHours(cutoff_dt)
                        /\ DateOf(e[1]) >= sd
         IN  SelectSeq(te, keep)
    ELSE LET keep(e) == sd <= DateOf(e[1]) /\ DateOf(e[1]) <= td
         IN  SelectSeq(te, keep)

\* the forward selection with the target date left out of a bare-date window
ForwardEvents_before_target(sd, te, td, ct) ==
    IF ct # None
    THEN LET cutoff_dt == Combine(td, ct)
             keep(e) == /\ WallHours(to_naive_berlin(e[1])) < WallHours(cutoff_dt)
                        /\ DateOf(e[1]) > sd
         IN  SelectSeq(te, keep)
    ELSE LET keep(e) == sd < DateOf(e[1]) /\ DateOf(e[1]) < td
         IN  SelectSeq(te, keep)

\* the events the forward branch selects
ForwardEvents(sd, te, td, ct) ==
    IF ct # None
    THEN LET cutoff_dt == Combine(td, ct)
             keep(e) == /\ WallHours(to_naive_berlin(e[1])) < WallHours(cutoff_dt)
                        /\ DateOf(e[1]) > sd
         IN  SelectSeq(te, keep)
    ELSE LET keep(e) == sd < DateOf(e[1]) /\ DateOf(e[1]) <= td
         IN  SelectSeq(te, keep)

\* the events the backward branch selects
BackwardEvents(sd, te, td) ==
    LET keep(e) == td < DateOf(e[1]) /\ DateOf(e[1]) <= sd
    IN  SelectSeq(te, keep)

\* skip an event whose seller does not hold the asset
RECURSIVE ApplyAll_held_only(_, _)
ApplyAll_held_only(h, events) ==
    IF events = << >> THEN h
    ELSE LET e == Head(events)
             sq == Deref(h, "squads")
             held == e[2] \in DOMAIN sq /\ e[4] \in sq[e[2]]
         IN  ApplyAll_held_only(
                 IF held
                 THEN add(discard(h, "squads", e[2], e[4]), "squads", e[3], e[4])
                 ELSE h,
                 Tail(events))

\* for ... in events: discard from the seller, add to the buyer
RECURSIVE ApplyAll(_, _)
ApplyAll(h, events) ==
    IF events = << >> THEN h
    ELSE LET e == Head(events)
         IN  ApplyAll(add(discard(h, "squads", e[2], e[4]), "squads", e[3], e[4]),
                      Tail(events))

\* for ... in events: discard from the buyer, add to the seller
RECURSIVE UndoAll(_, _)
UndoAll(h, events) ==
    IF events = << >> THEN h
    ELSE LET e == Head(events)
         IN  UndoAll(add(discard(h, "squads", e[3], e[4]), "squads", e[2], e[4]),
                     Tail(events))

\* the heap after the call; the returned dict is "squads", the events the
\* call worked on are the list "events"
ReconstructHeap(sd, h0, td, ct) ==
    LET h1 == squads_copy(h0, "seed_squads", "squads")
        te == h1.lists["transfer_events"]
    IN  IF td >= sd
        THEN LET h2 == [h1 EXCEPT !.lists = @ @@ ("events" :> ForwardEvents(sd, te, td, ct))]
                 h3 == [h2 EXCEPT !.lists["events"] = SortAsc(@)]
             IN  ApplyAll(h3, h3.lists["events"])
        ELSE LET h2 == [h1 EXCEPT !.lists = @ @@ ("events" :> BackwardEvents(sd, te, td))]
                 h3 == [h2 EXCEPT !.lists["events"] = SortDesc(@)]
             IN  UndoAll(h3, h3.lists["events"])

\* the value the call returns
reconstruct_squads_at_date(sd, ss, te, td, ct) ==
    Deref(ReconstructHeap(sd, HeapOf(ss, te), td, ct), "squads")

----------------------------------------------------------------------------
(* Settlement-day mapper (config.py) *)

\* before CUTOFF_HOUR_MEZ the timestamp belongs to the previous day
transfer_settlement_date_through_cutoff(dt) ==
    IF dt.hour <= CUTOFF_HOUR_MEZ THEN DateOf(dt) - 1 ELSE DateOf(dt)

transfer_settlement_date(dt) ==
    IF dt.hour < CUTOFF_HOUR_MEZ THEN DateOf(dt) - 1 ELSE DateOf(dt)

\* effective_today() with datetime.now() = now
effective_today(now) ==
    IF now.hour >= CUTOFF_HOUR_MEZ THEN DateOf(now) ELSE DateOf(now) - 1

----------------------------------------------------------------------------
(* Quote cache (salary_from_squads.py): cache[tradable_id][ISO date] = price *)

\* d.isoformat(): the key a date is stored under
isoformat(d) == <<"date", d>>

\* a key of a cache file that date.fromisoformat rejects (ValueError)
JunkKey == <<"text", 0>>

IsIsoDate(k) == k[1] = "date"

\* date.fromisoformat(k) of a key it accepts
fromisoformat(k) == k[2]

EmptyRow == [k \in {} |-> 0]

\* str(tid), the key of a tradable in the cache file, and int(k) of such a key
str(tid) == <<"str", tid>>
int(k) == k[2]

\* _load_quote_cache: out[int(k)] = the row of key k; {} for a missing file
load_quote_cache(file) ==
    [tid \in {int(k) : k \in DOMAIN file} |-> file[str(tid)]]

\* _save_quote_cache: json.dump({str(tid): data for tid, data in cache.items()})
save_quote_cache(c) ==
    [k \in {str(tid) : tid \in DOMAIN c} |-> c[int(k)]]

\* the scan for the latest cached date on or before d: None or <<date>>
BestDate_earliest(row, d) ==
    LET past == {fromisoformat(k) : k \in {x \in DOMAIN row : IsIsoDate(x) /\ fromisoformat(x) <= d}}
    IN  IF past = {} THEN None
        ELSE <<CHOOSE c \in past : \A o \in past : o >= c>>

BestDate(row, d) ==
    LET past == {fromisoformat(k) : k \in {x \in DOMAIN row : IsIsoDate(x) /\ fromisoformat(x) <= d}}
    IN  IF past = {} THEN None
        ELSE <<CHOOSE c \in past : \A o \in past : o <= c>>

\* row[h_date.isoformat()] = row.get(h_date.isoformat(), 0) + price
RECURSIVE MergeHist_accumulate(_, _)
MergeHist_accumulate(row, hist) ==
    IF hist = << >> THEN row
    ELSE LET k == isoformat(Head(hist)[1])
         IN  MergeHist_accumulate(
                 [x \in DOMAIN row \cup {k} |->
                     IF x = k THEN (IF k \in DOMAIN row THEN row[k] ELSE 0) + Head(hist)[2]
                     ELSE row[x]],
                 Tail(hist))

\* for h_date, price in hist: row[h_date.isoformat()] = price
RECURSIVE MergeHist(_, _)
MergeHist(row, hist) ==
    IF hist = << >> THEN row
    ELSE LET k == isoformat(Head(hist)[1])
         IN  MergeHist([x \in DOMAIN row \cup {k} |->
                           IF x = k THEN Head(hist)[2] ELSE row[x]],
                       Tail(hist))

\* the lookup with cache[tradable_id] = {} on every fetch, also when the
\* tradable has a row
get_value_for_date_fresh_row(tradable_id, d, c, hist) ==
    LET key == isoformat(d)
        cached == tradable_id \in DOMAIN c
        best == IF cached THEN BestDate(c[tradable_id], d) ELSE None
    IN  IF cached /\ key \in DOMAIN c[tradable_id]
        THEN [value |-> c[tradable_id][key], cache |-> c, fetches |-> 0]
        ELSE IF best # None
        THEN [value |-> c[tradable_id][isoformat(best[1])], cache |-> c, fetches |-> 0]
        ELSE LET c1 == [t \in DOMAIN c \cup {tradable_id} |->
                           IF t = tradable_id THEN EmptyRow ELSE c[t]]
                 c2 == [c1 EXCEPT ![tradable_id] = MergeHist(@, hist)]
                 row == c2[tradable_id]
                 best2 == BestDate(row, d)
             IN  [value |-> IF key \in DOMAIN row THEN row[key]
                            ELSE IF best2 # None THEN row[isoformat(best2[1])]
                            ELSE 0,
                  cache |-> c2,
                  fetches |-> 1]

\* _get_value_for_date(tradable_id, d, cache): hist is what get_quote_history
\* returns if it is called.  The result holds the value returned, the cache
\* after the call and the number of get_quote_history calls.
get_value_for_date(tradable_id, d, c, hist) ==
    LET key == isoformat(d)
        cached == tradable_id \in DOMAIN c
        best == IF cached THEN BestDate(c[tradable_id], d) ELSE None
    IN  IF cached /\ key \in DOMAIN c[tradable_id]
        THEN [value |-> c[tradable_id][key], cache |-> c, fetches |-> 0]
        ELSE IF best # None
        THEN [value |-> c[tradable_id][isoformat(best[1])], cache |-> c, fetches |-> 0]
        ELSE LET c1 == IF cached THEN c ELSE c @@ (tradable_id :> EmptyRow)
                 c2 == [c1 EXCEPT ![tradable_id] = MergeHist(@, hist)]
                 row == c2[tradable_id]
                 best2 == BestDate(row, d)
             IN  [value |-> IF key \in DOMAIN row THEN row[key]
                            ELSE IF best2 # None THEN row[isoformat(best2[1])]
                            ELSE 0,
                  cache |-> c2,
                  fetches |-> 1]

----------------------------------------------------------------------------
(* Salary ledger (salary_from_squads.py) *)

\* int(mv * SALARY_PCT) with SALARY_PCT = 0.001, for a price mv >= 0
SalaryPct(mv) == mv \div 1000

\* the market value of the debit day itself
salary_for_date_of_debit(d) == d

\* salary_for_date = d - timedelta(days=1)
salary_for_date(d) == d - 1

\* the elements of a set of numbers, ascending (sorted(salary_dates)); also
\* the order the model visits the users of a roster and the tradables of a
\* squad in: each lookup reads and writes the row of its own tradable only,
\* and two lookups of one tradable for one date return the same value
RECURSIVE Sorted(_)
Sorted(S) ==
    IF S = {} THEN << >>
    ELSE LET m == CHOOSE x \in S : \A y \in S : x <= y
         IN  <<m>> \o Sorted(S \ {m})

\* day_salary = SALARY_BASE + int(mv * SALARY_PCT): the fee of the last
\* tradable replaces the sum
RECURSIVE SquadSalary_assign(_, _, _, _, _)
SquadSalary_assign(st, uid, tids, d, prov) ==
    IF tids = << >> THEN st
    ELSE LET tid == Head(tids)
             r == get_value_for_date(tid, salary_for_date(d), st.cache, prov[tid])
         IN  SquadSalary_assign(
                 [st EXCEPT !.day_salary = SALARY_BASE + SalaryPct(r.value),
                            !.cache = r.cache,
                            !.fetches = @ + r.fetches,
                            !.quotes = @ \cup {<<tid, salary_for_date(d), r.value>>}],
                 uid, Tail(tids), d, prov)

\* for tid in squad: mv = _get_value_for_date(...); day_salary += SALARY_BASE + int(mv * SALARY_PCT)
RECURSIVE SquadSalary(_, _, _, _, _)
SquadSalary(st, uid, tids, d, prov) ==
    IF tids = << >> THEN st
    ELSE LET tid == Head(tids)
             r == get_value_for_date(tid, salary_for_date(d), st.cache, prov[tid])
         IN  SquadSalary(
                 [st EXCEPT !.day_salary = @ + SALARY_BASE + SalaryPct(r.value),
                            !.cache = r.cache,
                            !.fetches = @ + r.fetches,
                            !.quotes = @ \cup {<<tid, salary_for_date(d), r.value>>}],
                 uid, Tail(tids), d, prov)

\* for uid, squad in squads_at_d.items(): the computer is skipped; for every
\* other user day_salary starts at 0 and
\* salary_by_user[uid] = salary_by_user.get(uid, 0) + day_salary
RECURSIVE RosterSalary(_, _, _, _, _)
RosterSalary(st, uids, roster, d, prov) ==
    IF uids = << >> THEN st
    ELSE LET uid == Head(uids)
             st1 == SquadSalary([st EXCEPT !.day_salary = 0], uid,
                                Sorted(roster[uid]), d, prov)
             st2 == [st1 EXCEPT
                        !.salary = IF uid \in DOMAIN @
                                   THEN [@ EXCEPT ![uid] = @ + st1.day_salary]
                                   ELSE @ @@ (uid :> st1.day_salary),
                        !.fees = @ \cup {<<uid, d, st1.day_salary>>}]
         IN  RosterSalary(IF uid = COMPUTER_USER_ID THEN st ELSE st2,
                          Tail(uids), roster, d, prov)

\* for d in sorted(salary_dates): the roster at the cutoff of d
RECURSIVE LedgerDays(_, _, _, _, _, _)
LedgerDays(st, days, sd, ss, te, prov) ==
    IF days = << >> THEN st
    ELSE LET d == Head(days)
             squads_at_d == reconstruct_squads_at_date(sd, ss, te, d, SALARY_CUTOFF_TIME)
         IN  LedgerDays(RosterSalary(st, Sorted(DOMAIN squads_at_d), squads_at_d, d, prov),
                        Tail(days), sd, ss, te, prov)

\* compute_salaries_from_historical_squads with the seed file present and
\* quote_cache, transfer_events and salary_active_dates passed by the caller
compute_salaries_from_historical_squads(sd, ss, te, dates, c, prov) ==
    LET st0 == [salary |-> [u \in {} |-> 0], cache |-> c, fetches |-> 0, quotes |-> {},
                day_salary |-> 0, fees |-> {}]
    IN  IF dates = {} THEN st0
        ELSE LedgerDays(st0, Sorted(dates), sd, ss, te, prov)

----------------------------------------------------------------------------
(* Inputs of the reconstruction *)

Stamps(z) == {DateTime(d, h, z) : d \in Days, h \in Hours}
Events(z) == {<<t, m[1], m[2], a>> : t \in Stamps(z), m \in Moves, a \in TradedAssets}

\* the feed lists news newest first (get_news_transfer_events_since stops
\* paging at the first entry older than since_date); the items of one news
\* entry share its timestamp
NewestFirst(s) ==
    \A i \in 1..(Len(s) - 1) : WallHours(s[i][1]) >= WallHours(s[i + 1][1])

LogsUpTo(n, z) ==
    {s \in UNION {[1..k -> Events(z)] : k \in 0..n} : NewestFirst(s)}

Holders(sq, a) == {u \in DOMAIN sq : a \in sq[u]}

\* snapshots: the computer may be missing from the seed file; the asset is
\* held by nobody or by one of the listed users
Snapshots ==
    {sq \in UNION {[K -> SUBSET TradedAssets] :
                       K \in {Managers, Managers \ {COMPUTER_USER_ID}}} :
        \A a \in TradedAssets : Cardinality(Holders(sq, a)) <= 1}

Targets == {<<d, c>> : d \in Days, c \in {None, SALARY_CUTOFF_TIME}}

NoDict == [u \in {} |-> {}]
NoProbe == [called |-> FALSE, target_date |-> 0, cutoff_time |-> None, squads |-> NoDict]

\* the variables an operation of another component leaves alone
IdleSettle == stamp = DateTime(0, 0, "naive") /\ settled = 0 /\ today = 0
IdleCache == cache = NoDict /\ provider = NoDict /\ asked = <<0, 0>> /\ value = 0 /\ fetches = 0
IdleLedger ==
    salary_dates = {} /\ salary_by_user = NoDict /\ quotes = {} /\ day_fees = {}
IdleBalance ==
    /\ news = << >> /\ seed_status = "present" /\ standings = NoDict /\ user_info = None
    /\ transfer_deltas = << >> /\ balance_by_user_id = NoDict
    /\ player_count_by_user_id = NoDict /\ balance = NoDict /\ outcome = "none"
IdleNews == news_cache = None /\ clock = 0 /\ feed_ok = TRUE
IdlePasses == quote_cache_file = None /\ fetched = << >> /\ passes = << >>
IdleRecon ==
    /\ seed_date = 0 /\ seed_squads = NoDict /\ transfer_events = << >>
    /\ target_date = 0 /\ cutoff_time = None /\ squads = NoDict /\ probe = NoProbe

InitInputs(n, zones) ==
    /\ seed_date = MaxDay \div 2
    /\ seed_squads \in Snapshots
    /\ \E z \in zones : transfer_events \in LogsUpTo(n, z)
    /\ target_date = 0
    /\ cutoff_time = None
    /\ squads = NoDict
    /\ probe = NoProbe
    /\ pc = "idle"
    /\ IdleSettle /\ IdleCache /\ IdleLedger /\ IdleBalance /\ IdleNews /\ IdlePasses

InitRecon == InitInputs(MaxEvents, Zones)

\* a call reconstruct_squads_at_date(seed_date, seed_squads, transfer_events, d, cutoff_time=c)
Reconstruct(d, c) ==
    LET h == ReconstructHeap(seed_date, HeapOf(seed_squads, transfer_events), d, c)
    IN  /\ squads' = Deref(h, "squads")
        /\ seed_squads' = Deref(h, "seed_squads")
        /\ transfer_events' = h.lists["transfer_events"]
        /\ target_date' = d
        /\ cutoff_time' = c
        /\ probe' = IF probe.called THEN probe
                    ELSE [called |-> TRUE, target_date |-> d, cutoff_time |-> c,
                          squads |-> Deref(h, "squads")]
        /\ UNCHANGED <<seed_date, settleVars, cacheVars, ledgerVars, balanceVars, newsVars,
                       passVars>>

\* the first call on the inputs
Call ==
    /\ pc = "idle"
    /\ \E t \in Targets : Reconstruct(t[1], t[2])
    /\ pc' = "done"

\* the roster of a bare-date call taken as the snapshot of its date, and
\* reconstructed back to the original anchor date
RoundTrip ==
    /\ pc = "done"
    /\ cutoff_time = None
    /\ LET h == ReconstructHeap(target_date, HeapOf(squads, transfer_events),
                                seed_date, None)
       IN  /\ squads' = Deref(h, "squads")
           /\ transfer_events' = h.lists["transfer_events"]
    /\ pc' = "back"
    /\ UNCHANGED <<seed_date, seed_squads, target_date, cutoff_time, probe,
                   settleVars, cacheVars, ledgerVars, balanceVars, newsVars, passVars>>

NextRecon == Call \/ RoundTrip

Spec == InitRecon /\ [][NextRecon]_vars

\* a further call on the same inputs, for any target
Recall ==
    /\ pc \in {"done", "again"}
    /\ \E t \in Targets : Reconstruct(t[1], t[2])
    /\ pc' = "again"

\* repeated calls on logs of naive timestamps
InitPure == InitInputs(MaxPureEvents, {"naive"})

NextPure == Call \/ Recall

SpecPure == InitPure /\ [][NextPure]_vars

----------------------------------------------------------------------------
(* The settlement-day mapper applied to a timestamp *)

InitSettle ==
    /\ stamp \in {DateTime(d, h, z) : d \in Days, h \in 0..23, z \in Zones}
    /\ settled = 0 /\ today = 0
    /\ pc = "idle"
    /\ IdleRecon /\ IdleCache /\ IdleLedger /\ IdleBalance /\ IdleNews /\ IdlePasses

Settle ==
    /\ pc = "idle"
    /\ settled' = transfer_settlement_date(stamp)
    /\ today' = effective_today(stamp)
    /\ pc' = "settled"
    /\ UNCHANGED <<stamp, reconVars, cacheVars, ledgerVars, balanceVars, newsVars, passVars>>

SpecSettle == InitSettle /\ [][Settle]_vars

----------------------------------------------------------------------------
(* Lookups in the quote cache *)

Prices == {0, 100500}
Points == {<<d, p>> : d \in Days, p \in Prices}

\* what the feed returns for one tradable: <<date, price>> points; nothing
\* when the request fails
HistsUpTo(n) == UNION {[1..k -> Points] : k \in 0..n}

\* a row of the cache file: empty, one dated price, or a key that is no date
Rows == {EmptyRow} \cup {isoformat(pt[1]) :> pt[2] : pt \in Points}
            \cup {JunkKey :> p : p \in Prices}

Caches == UNION {[K -> Rows] : K \in SUBSET Assets}

InitCache ==
    /\ cache \in Caches
    /\ \E h \in HistsUpTo(MaxPoints) : provider = [a \in Assets |-> h]
    /\ asked = <<0, 0>> /\ value = 0 /\ fetches = 0
    /\ pc = "idle"
    /\ IdleRecon /\ IdleSettle /\ IdleLedger /\ IdleBalance /\ IdleNews /\ IdlePasses

\* _get_value_for_date(token, a, d, cache, path)
Lookup(a, d) ==
    LET r == get_value_for_date(a, d, cache, provider[a])
    IN  /\ cache' = r.cache
        /\ value' = r.value
        /\ fetches' = r.fetches
        /\ asked' = <<a, d>>
        /\ pc' = "looked"
        /\ UNCHANGED <<provider, reconVars, settleVars, ledgerVars, balanceVars, newsVars,
                       passVars>>

NextCache == \E a \in Assets, d \in Days : Lookup(a, d)

SpecCache == InitCache /\ [][NextCache]_vars

----------------------------------------------------------------------------
(* The lookups of one pass: the quote cache is loaded from the file, every  *)
(* lookup works on the loaded dict, and the calls of get_quote_history are  *)
(* recorded in call order.                                                  *)

\* the caches a pass may load: any row or none for the traded asset, and
\* for the other asset no row or one price dated on the last day
PassCaches ==
    {c \in Caches :
        8 \in DOMAIN c => c[8] = (isoformat(MaxDay) :> 100500)}

\* the cache files a pass may find
QuoteFiles == {save_quote_cache(c) : c \in PassCaches}

\* quote_cache = _load_quote_cache(quote_cache_path) at the start of a pass
InitLookups ==
    /\ quote_cache_file \in QuoteFiles
    /\ cache = load_quote_cache(quote_cache_file)
    /\ \E h \in HistsUpTo(MaxPoints) : provider = [a \in Assets |-> h]
    /\ asked = <<0, 0>> /\ value = 0 /\ fetches = 0
    /\ fetched = << >> /\ passes = << >>
    /\ pc = "idle"
    /\ IdleRecon /\ IdleSettle /\ IdleLedger /\ IdleBalance /\ IdleNews

\* _get_value_for_date(token, a, d, cache, path); a pass makes at most
\* MaxFetches calls of get_quote_history
PassLookupOf(a, d) ==
    \E r \in {get_value_for_date(a, d, cache, provider[a])} :
        /\ Len(fetched) + r.fetches <= MaxFetches
        /\ cache' = r.cache
        /\ value' = r.value
        /\ fetches' = r.fetches
        /\ fetched' = IF r.fetches = 1 THEN Append(fetched, a) ELSE fetched
        /\ asked' = <<a, d>>
        /\ pc' = "looked"
        /\ UNCHANGED <<provider, quote_cache_file, passes, reconVars, settleVars,
                       ledgerVars, balanceVars, newsVars>>

NextLookups == \E a \in Assets, d \in Days : PassLookupOf(a, d)

SpecLookups == InitLookups /\ [][NextLookups]_vars

----------------------------------------------------------------------------
(* The salary computation on a snapshot, a log, debit days and a cache *)

\* a two-asset squad; the computer holding an asset; a squad that is a
\* superset of another with the computer missing from the seed file
LedgerSnapshots ==
    {(COMPUTER_USER_ID :> {}) @@ (2 :> {7, 8}) @@ (3 :> {}),
     (COMPUTER_USER_ID :> {8}) @@ (2 :> {7}) @@ (3 :> {}),
     (2 :> {7}) @@ (3 :> {7, 8})}

InitLedger ==
    /\ seed_date = MaxDay \div 2
    /\ seed_squads \in LedgerSnapshots
    /\ transfer_events \in LogsUpTo(1, "naive")
    /\ salary_dates \in SUBSET Days
    /\ cache \in {NoDict} \cup {[a \in Assets |-> r] : r \in Rows \ {JunkKey :> p : p \in Prices}}
    /\ \E h \in HistsUpTo(1) : provider = [a \in Assets |-> IF a \in TradedAssets THEN h ELSE << >>]
    /\ target_date = 0 /\ cutoff_time = None /\ squads = NoDict /\ probe = NoProbe
    /\ asked = <<0, 0>> /\ value = 0 /\ fetches = 0
    /\ salary_by_user = NoDict /\ quotes = {} /\ day_fees = {}
    /\ pc = "idle"
    /\ IdleSettle /\ IdleBalance /\ IdleNews /\ IdlePasses

ComputeSalaries ==
    /\ pc = "idle"
    /\ \E st \in {compute_salaries_from_historical_squads(
                      seed_date, seed_squads, transfer_events, salary_dates, cache, provider)} :
           /\ salary_by_user' = st.salary
           /\ cache' = st.cache
           /\ fetches' = st.fetches
           /\ quotes' = st.quotes
           /\ day_fees' = st.fees
    /\ pc' = "paid"
    /\ UNCHANGED <<seed_date, seed_squads, transfer_events, target_date, cutoff_time,
                   squads, probe, provider, asked, value, salary_dates, settleVars,
                   balanceVars, newsVars, passVars>>

SpecLedger == InitLedger /\ [][ComputeSalaries]_vars

----------------------------------------------------------------------------
(* News feed readers (comunio_api.py); the feed fits one page *)

\* entries: <<"TRANSACTION_TRANSFER", date, from id, to id, tradable id, price>>
\* (one item of FROM_COMPUTER, TO_COMPUTER or BETWEEN_USERS) and
\* <<"TRANSACTION_SALARIES", date, recipient id, amount>>
IsTransfer(entry) == entry[1] = "TRANSACTION_TRANSFER"
IsSalaries(entry) == entry[1] = "TRANSACTION_SALARIES"

\* if entry_date is not None and transfer_settlement_date(entry_date) < since_date: continue
OlderThanSince(entry, since_date) == transfer_settlement_date(entry[2]) < since_date

\* both sides get a delta, the computer included
ItemDeltas_with_computer(entry) == <<<<entry[4], -entry[6]>>, <<entry[3], entry[6]>>>>

\* if to_id != COMPUTER_USER_ID: deltas.append((to_id, -price))
\* if from_id != COMPUTER_USER_ID: deltas.append((from_id, price))
ItemDeltas(entry) ==
    (IF entry[4] # COMPUTER_USER_ID THEN <<<<entry[4], -entry[6]>>>> ELSE << >>)
    \o (IF entry[3] # COMPUTER_USER_ID THEN <<<<entry[3], entry[6]>>>> ELSE << >>)

RECURSIVE get_news_transfer_deltas_since(_, _)
get_news_transfer_deltas_since(nw, since_date) ==
    IF nw = << >> THEN << >>
    ELSE (IF OlderThanSince(Head(nw), since_date) \/ ~IsTransfer(Head(nw)) THEN << >>
          ELSE ItemDeltas(Head(nw)))
         \o get_news_transfer_deltas_since(Tail(nw), since_date)

\* TRANSACTION_SALARIES: deltas.append((rec_id, -amount)) if amount > 0
RECURSIVE get_news_balance_deltas_since(_, _)
get_news_balance_deltas_since(nw, since_date) ==
    IF nw = << >> THEN << >>
    ELSE LET entry == Head(nw)
         IN  (IF OlderThanSince(entry, since_date) THEN << >>
              ELSE IF IsTransfer(entry) THEN ItemDeltas(entry)
              ELSE IF IsSalaries(entry) /\ entry[4] > 0 THEN <<<<entry[3], -entry[4]>>>>
              ELSE << >>)
             \o get_news_balance_deltas_since(Tail(nw), since_date)

\* events.append((entry_date, from_id, to_id, tid)), the computer included
RECURSIVE get_news_transfer_events_since(_, _)
get_news_transfer_events_since(nw, since_date) ==
    IF nw = << >> THEN << >>
    ELSE LET entry == Head(nw)
         IN  (IF OlderThanSince(entry, since_date) \/ ~IsTransfer(entry) THEN << >>
              ELSE <<<<entry[2], entry[3], entry[4], entry[5]>>>>)
             \o get_news_transfer_events_since(Tail(nw), since_date)

\* active_dates.add(entry_date.date()) unless entry_date.date() < since_date
get_news_salary_active_dates_since(nw, since_date) ==
    {DateOf(nw[i][2]) : i \in {j \in 1..Len(nw) :
                                 IsSalaries(nw[j]) /\ DateOf(nw[j][2]) >= since_date}}

----------------------------------------------------------------------------
(* Balances: fetch_all (scraper.py), derived_balance (balance.py) and the  *)
(* balance choice of _build_league_overview (main.py)                      *)

NoBalances == [u \in {} |-> 0]

\* balance_by_user_id[uid] = delta: the start budget and earlier deltas are lost
RECURSIVE AddDeltas_overwrite(_, _)
AddDeltas_overwrite(bal, deltas) ==
    IF deltas = << >> THEN bal
    ELSE LET uid == Head(deltas)[1]
             delta == Head(deltas)[2]
         IN  AddDeltas_overwrite([u \in DOMAIN bal \cup {uid} |->
                                     IF u = uid THEN delta ELSE bal[u]],
                                 Tail(deltas))

\* for uid, delta in deltas: balance_by_user_id[uid] = balance_by_user_id.get(uid, START_BUDGET) + delta
RECURSIVE AddDeltas(_, _)
AddDeltas(bal, deltas) ==
    IF deltas = << >> THEN bal
    ELSE LET uid == Head(deltas)[1]
             delta == Head(deltas)[2]
             old == IF uid \in DOMAIN bal THEN bal[uid] ELSE START_BUDGET
         IN  AddDeltas([u \in DOMAIN bal \cup {uid} |->
                           IF u = uid THEN old + delta ELSE bal[u]],
                       Tail(deltas))

\* for uid, total_salary in salary_by_user.items():
\*     balance_by_user_id[uid] = balance_by_user_id.get(uid, START_BUDGET) - total_salary
SubSalaries(bal, salary) ==
    [u \in DOMAIN bal \cup DOMAIN salary |->
        (IF u \in DOMAIN bal THEN bal[u] ELSE START_BUDGET)
        - (IF u \in DOMAIN salary THEN salary[u] ELSE 0)]

\* get_player_count_today(..., return_squads=True) with the seed file loaded
get_player_count_today(sd, ss, te, td) ==
    LET squads_today == reconstruct_squads_at_date(sd, ss, te, td, None)
        kept == DOMAIN squads_today \ {COMPUTER_USER_ID}
    IN  [counts |-> [uid \in kept |-> Cardinality(squads_today[uid])],
         squads |-> [uid \in kept |-> squads_today[uid]]]

\* balance_by_user_id[uid_int] = budget, for the logged-in user with a budget
UserBudget(bal, usr) ==
    IF usr = None THEN bal
    ELSE [u \in DOMAIN bal \cup {usr[1]} |-> IF u = usr[1] THEN usr[2] ELSE bal[u]]

\* the news part of fetch_all on a news cache miss, news_url and
\* SEASON_START (= since_date) set, and the feed answering
fetch_all(nw, since_date, status, sd, ss, stand, usr, c, prov, today_date) ==
    LET use_salaries_from_squads == status # "missing"
        deltas == get_news_transfer_deltas_since(nw, since_date)
        events == get_news_transfer_events_since(nw, since_date)
        active == get_news_salary_active_dates_since(nw, since_date)
        balance_deltas == get_news_balance_deltas_since(nw, since_date)
        paid   == compute_salaries_from_historical_squads(sd, ss, events, active, c, prov)
        counts == get_player_count_today(sd, ss, events, today_date)
        none   == [counts |-> NoBalances, squads |-> NoDict]
        idle   == [salary |-> NoBalances, cache |-> c, fetches |-> 0, quotes |-> {},
                   day_salary |-> 0, fees |-> {}]
    IN  IF status = "malformed"
        \* load_seed_squads raises inside compute_salaries_from_historical_squads
        THEN [outcome |-> "raised", deltas |-> deltas, events |-> events,
              active |-> active, paid |-> idle, counts |-> none, bal |-> NoBalances]
        ELSE IF use_salaries_from_squads
        THEN [outcome |-> "ok", deltas |-> deltas, events |-> events, active |-> active,
              paid |-> paid, counts |-> counts,
              bal |-> UserBudget(SubSalaries(AddDeltas(NoBalances, deltas), paid.salary), usr)]
        ELSE [outcome |-> "ok", deltas |-> deltas, events |-> events, active |-> active,
              paid |-> idle, counts |-> none,
              bal |-> UserBudget(AddDeltas(NoBalances, balance_deltas), usr)]

\* net_transfer_spending over an offers history that reports the transfers
\* of the news: purchases minus sales of the manager
RECURSIVE net_transfer_spending(_, _)
net_transfer_spending(nw, m) ==
    IF nw = << >> THEN 0
    ELSE LET t == Head(nw)
         IN  (IF IsTransfer(t) /\ t[4] = m THEN t[6] ELSE 0)
             - (IF IsTransfer(t) /\ t[3] = m THEN t[6] ELSE 0)
             + net_transfer_spending(Tail(nw), m)

\* derived_balance with SALARIES_ENABLED at its default (False)
derived_balance(m, stand, nw) ==
    IF stand[m] # None THEN stand[m][1]
    ELSE START_BUDGET - net_transfer_spending(nw, m)

\* _build_league_overview: balance_by_user_id[m.user_id] if present, else
\* derived_balance(m, ...); the points payout that follows is left out
overview_balance(m, bal, stand, nw) ==
    IF m \in DOMAIN bal THEN bal[m] ELSE derived_balance(m, stand, nw)

----------------------------------------------------------------------------
(* One request: fetch_all, then the balances of _build_league_overview *)

\* SEASON_START
since_date == 0

\* the managers of the standings
LeagueManagers == Managers \ {COMPUTER_USER_ID}

\* transfer news (purchase from the computer, sale between users, sale to
\* the computer), stamped before the cutoff hour, priced by their day
NewsMoves == {<<COMPUTER_USER_ID, 2>>, <<2, 3>>, <<3, COMPUTER_USER_ID>>}
NewsPrice(dt) == 1000 * (dt.day + 1)
TransferNews ==
    {<<"TRANSACTION_TRANSFER", DateTime(d, CUTOFF_HOUR_MEZ - 1, "naive"), m[1], m[2], a,
       NewsPrice(DateTime(d, CUTOFF_HOUR_MEZ - 1, "naive"))>> :
        d \in Days, m \in NewsMoves, a \in TradedAssets}

\* the salary debits of the news: manager 2 is debited 700 on each of the
\* days 1..k, shortly after the cutoff hour
SalaryNews(k) ==
    [i \in 1..k |-> <<"TRANSACTION_SALARIES", DateTime(k + 1 - i, CUTOFF_HOUR_MEZ, "naive"),
                      2, 700>>]

\* feeds: up to n transfer entries, newest first, and the salary entries
NewsFeeds(n) ==
    {t \o SalaryNews(k) :
        t \in {s \in UNION {[1..j -> TransferNews] : j \in 0..n} :
                  \A i \in 1..(Len(s) - 1) : WallHours(s[i][2]) >= WallHours(s[i + 1][2])},
        k \in 0..MaxDay}

NoStandings == [m \in LeagueManagers |-> None]

InitBalance ==
    /\ news \in NewsFeeds(MaxNews)
    /\ \/ seed_status = "present" /\ seed_squads \in LedgerSnapshots
       \/ seed_status \in {"missing", "malformed"} /\ seed_squads = NoDict
    /\ seed_date = MaxDay \div 2
    /\ standings \in {NoStandings, [NoStandings EXCEPT ![2] = <<5000>>]}
    /\ user_info \in {None, <<3, 7000>>}
    /\ cache = NoDict
    /\ provider = [a \in Assets |-> IF a \in TradedAssets THEN <<<<0, 100500>>>> ELSE << >>]
    /\ transfer_events = << >> /\ target_date = 0 /\ cutoff_time = None
    /\ squads = NoDict /\ probe = NoProbe
    /\ asked = <<0, 0>> /\ value = 0 /\ fetches = 0
    /\ transfer_deltas = << >> /\ balance_by_user_id = NoDict
    /\ player_count_by_user_id = NoDict /\ balance = NoDict /\ outcome = "none"
    /\ pc = "idle"
    /\ IdleSettle /\ IdleLedger /\ IdleNews /\ IdlePasses

\* fetch_all() with effective_today() = MaxDay
FetchAll ==
    /\ pc = "idle"
    /\ \E r \in {fetch_all(news, since_date, seed_status, seed_date, seed_squads,
                           standings, user_info, cache, provider, MaxDay)} :
           /\ outcome' = r.outcome
           /\ transfer_deltas' = r.deltas
           /\ transfer_events' = r.events
           /\ salary_dates' = r.active
           /\ salary_by_user' = r.paid.salary
           /\ cache' = r.paid.cache
           /\ fetches' = r.paid.fetches
           /\ quotes' = r.paid.quotes
           /\ day_fees' = r.paid.fees
           /\ player_count_by_user_id' = r.counts.counts
           /\ squads' = r.counts.squads
           /\ balance_by_user_id' = r.bal
    /\ pc' = "fetched"
    /\ UNCHANGED <<seed_date, seed_squads, target_date, cutoff_time, probe, provider,
                   asked, value, news, seed_status, standings, user_info, balance,
                   settleVars, newsVars, passVars>>

\* the offers history (transfer_data) reports the transfers of the season
OffersHistory(nw) ==
    SelectSeq(nw, LAMBDA e : IsTransfer(e) /\ ~OlderThanSince(e, since_date))

\* the balance of every manager row, when fetch_all returned
BuildOverview ==
    /\ pc = "fetched"
    /\ outcome = "ok"
    /\ balance' = [m \in LeagueManagers |->
                      overview_balance(m, balance_by_user_id, standings,
                                       OffersHistory(news))]
    /\ pc' = "built"
    /\ UNCHANGED <<reconVars, settleVars, cacheVars, ledgerVars, newsVars, passVars, news,
                   seed_status, standings, user_info, transfer_deltas,
                   balance_by_user_id, player_count_by_user_id, outcome>>

NextBalance == FetchAll \/ BuildOverview

SpecBalance == InitBalance /\ [][NextBalance]_vars

----------------------------------------------------------------------------
(* The news cache data/cache/news_transfer.json (scraper.py) *)

\* _save_news_cache: the payload written for a fetch at time t
NewsPayload(url, since, t, deltas, events, active, balance_deltas) ==
    [news_url |-> url, since_date |-> since, ts |-> t, transfer_deltas |-> deltas,
     transfer_events |-> events, salary_active_dates |-> active,
     balance_deltas |-> balance_deltas]

\* _load_news_cache: None on a missing file, another key or expiry
load_news_cache(nc, url, since, t, ttl) ==
    IF nc = None THEN None
    ELSE IF nc.news_url # url \/ nc.since_date # since THEN None
    ELSE IF (t - nc.ts) > ttl THEN None
    ELSE nc

\* if dt.tzinfo: dt = dt.replace(tzinfo=None)
StripTz(events) ==
    [i \in 1..Len(events) |->
        <<[events[i][1] EXCEPT !.tz = "naive"], events[i][2], events[i][3], events[i][4]>>]

\* _get_cached_news_data: a hit answers from the file; a miss reads the feed
\* (get_news_page raises when the request fails) and rewrites the file
get_cached_news_data(nc, nw, url, since, t, ok, use_salaries_from_squads) ==
    LET entry == load_news_cache(nc, url, since, t, NEWS_CACHE_TTL_SECONDS)
        fresh == NewsPayload(url, since, t,
                             get_news_transfer_deltas_since(nw, since),
                             get_news_transfer_events_since(nw, since),
                             get_news_salary_active_dates_since(nw, since),
                             IF use_salaries_from_squads THEN None
                             ELSE get_news_balance_deltas_since(nw, since))
    IN  IF entry # None
        THEN [outcome |-> "ok", file |-> nc, deltas |-> entry.transfer_deltas,
              events |-> StripTz(entry.transfer_events),
              active |-> entry.salary_active_dates]
        ELSE IF ~ok
        THEN [outcome |-> "raised", file |-> nc, deltas |-> << >>, events |-> << >>,
              active |-> {}]
        ELSE [outcome |-> "ok", file |-> fresh, deltas |-> fresh.transfer_deltas,
              events |-> fresh.transfer_events, active |-> fresh.salary_active_dates]

\* get_quote_history: [] when the request fails
get_quote_history(ok, hist) == IF ok THEN hist ELSE << >>

\* the feed an earlier request cached
OldFeed ==
    <<<<"TRANSACTION_TRANSFER", DateTime(1, CUTOFF_HOUR_MEZ - 1, "naive"), 2, 3, 7, 2000>>,
      <<"TRANSACTION_SALARIES", DateTime(1, CUTOFF_HOUR_MEZ, "naive"), 2, 700>>>>

\* the cache files: none, or the payload of OldFeed or of an empty feed,
\* written at time 0 for this news_url or for another one
NewsCaches ==
    {None} \cup
    {NewsPayload(url, since_date, 0,
                 get_news_transfer_deltas_since(nw, since_date),
                 get_news_transfer_events_since(nw, since_date),
                 get_news_salary_active_dates_since(nw, since_date), None) :
        url \in {"news_url", "other_url"}, nw \in {OldFeed, << >>}}

InitNews ==
    /\ news \in NewsFeeds(MaxNews)
    /\ news_cache \in NewsCaches
    /\ clock \in {NEWS_CACHE_TTL_SECONDS - 1, NEWS_CACHE_TTL_SECONDS, NEWS_CACHE_TTL_SECONDS + 1}
    /\ feed_ok \in BOOLEAN
    /\ seed_status \in {"present", "missing"}
    /\ cache \in {NoDict, [a \in Assets |-> (isoformat(1) :> 100500)]}
    /\ provider = [a \in Assets |-> <<<<0, 100500>>>>]
    /\ asked = <<0, 0>> /\ value = 0 /\ fetches = 0
    /\ standings = NoDict /\ user_info = None
    /\ transfer_deltas = << >> /\ balance_by_user_id = NoDict
    /\ player_count_by_user_id = NoDict /\ balance = NoDict /\ outcome = "none"
    /\ pc = "idle"
    /\ IdleRecon /\ IdleSettle /\ IdleLedger /\ IdlePasses

\* _get_cached_news_data(news_url, SEASON_START, token, use_salaries_from_squads)
GetCachedNews ==
    /\ pc = "idle"
    /\ \E r \in {get_cached_news_data(news_cache, news, "news_url", since_date, clock,
                                      feed_ok, seed_status # "missing")} :
           /\ outcome' = r.outcome
           /\ news_cache' = r.file
           /\ transfer_deltas' = r.deltas
           /\ transfer_events' = r.events
           /\ salary_dates' = r.active
    /\ pc' = "news"
    /\ UNCHANGED <<seed_date, seed_squads, target_date, cutoff_time, squads, probe,
                   settleVars, cacheVars, salary_by_user, quotes, day_fees, news,
                   seed_status, standings, user_info, balance_by_user_id,
                   player_count_by_user_id, balance, clock, feed_ok, passVars>>

\* a valuation lookup of the same request; the provider is down when the
\* feed is
WarmQuote(a, d) ==
    /\ pc = "news"
    /\ outcome = "ok"
    /\ \E r \in {get_value_for_date(a, d, cache, get_quote_history(feed_ok, provider[a]))} :
           /\ cache' = r.cache
           /\ value' = r.value
           /\ fetches' = r.fetches
    /\ asked' = <<a, d>>
    /\ pc' = "warm"
    /\ UNCHANGED <<provider, reconVars, settleVars, ledgerVars, balanceVars, newsVars,
                   passVars>>

NextNews == GetCachedNews \/ \E a \in Assets, d \in Days : WarmQuote(a, d)

SpecNews == InitNews /\ [][NextNews]_vars

----------------------------------------------------------------------------
(* Well-formed logs: in the order (timestamp, position in the list) every   *)
(* event's seller holds the asset immediately before the event.  The        *)
(* snapshot is the state at the end of its anchor date.                     *)

Owns(sq, u, a) == u \in DOMAIN sq /\ a \in sq[u]

\* the roster with asset a moved from f to t
Moved(sq, f, t, a) ==
    [u \in DOMAIN sq \cup {f, t} |->
        IF u = t THEN (IF u \in DOMAIN sq THEN sq[u] ELSE {}) \cup {a}
        ELSE IF u = f THEN (IF u \in DOMAIN sq THEN sq[u] ELSE {}) \ {a}
        ELSE sq[u]]

\* events after the snapshot, oldest first
RECURSIVE WellFormedAfter(_, _)
WellFormedAfter(sq, s) ==
    IF s = << >> THEN TRUE
    ELSE LET e == Head(s)
         IN  /\ Owns(sq, e[2], e[4])
             /\ WellFormedAfter(Moved(sq, e[2], e[3], e[4]), Tail(s))

\* events up to the snapshot, newest first: the buyer holds the asset after
\* the event, and the seller held it before
RECURSIVE WellFormedBefore(_, _)
WellFormedBefore(sq, s) ==
    IF s = << >> THEN TRUE
    ELSE LET e == Head(s)
         IN  /\ Owns(sq, e[3], e[4])
             /\ WellFormedBefore(Moved(sq, e[3], e[2], e[4]), Tail(s))

Reverse(s) == [i \in 1..Len(s) |-> s[Len(s) + 1 - i]]

WellFormed(sd, sq, te) ==
    LET ordered == SortAsc(te)
        after(e) == DateOf(e[1]) > sd
        before(e) == DateOf(e[1]) <= sd
    IN  /\ WellFormedAfter(sq, SelectSeq(ordered, after))
        /\ WellFormedBefore(sq, Reverse(SelectSeq(ordered, before)))

\* every traded asset is held by exactly one manager
Partition(sq) == \A a \in TradedAssets : Cardinality(Holders(sq, a)) = 1

----------------------------------------------------------------------------
(* Claims *)

\* C1 (snapshot fixpoint): a call whose target_date is the seed date returns
\* a mapping equal to the snapshot (same keys, same sets), whatever the log
\* holds and with or without a cutoff time.
C1_SnapshotFixpoint ==
    (pc = "done" /\ target_date = seed_date) => squads = seed_squads

\* the fixpoint case with a cutoff: the log holds an event on the anchor date
\* before the cutoff hour and one after the anchor date
C1_Witness ==
    /\ pc = "done" /\ target_date = seed_date /\ cutoff_time # None
    /\ \E i \in DOMAIN transfer_events :
          /\ DateOf(transfer_events[i][1]) = seed_date
          /\ transfer_events[i][1].hour < CUTOFF_HOUR_MEZ
          /\ ~Owns(seed_squads, transfer_events[i][3], transfer_events[i][4])
    /\ \E i \in DOMAIN transfer_events : DateOf(transfer_events[i][1]) > seed_date
    /\ squads = seed_squads

\* C2 (reversibility): for any date D, the roster at D taken as the snapshot
\* of D and reconstructed back to the anchor date is the original snapshot.
\* Stated for the logs on which a replay can be undone at all (the snapshot
\* gives the asset one holder and the log is well-formed), and comparing
\* what every manager holds, a manager without a key holding nothing.
C2_Reversibility ==
    (/\ pc = "back"
     /\ Partition(seed_squads)
     /\ WellFormed(seed_date, seed_squads, transfer_events))
        => \A u \in Managers, a \in Assets : Owns(squads, u, a) <=> Owns(seed_squads, u, a)

\* C3 (ownership partition), as claimed: from a snapshot that gives every
\* asset exactly one holder and a well-formed log, the roster of every
\* target date gives every asset exactly one holder.
C3_OwnershipPartition ==
    (/\ pc = "done" /\ cutoff_time = None
     /\ Partition(seed_squads)
     /\ WellFormed(seed_date, seed_squads, transfer_events))
        => Partition(squads)

\* C4 (inputs are not mutated): no call changes the caller's snapshot (its
\* keys and every set in it) nor the caller's event list.
C4_InputsNotMutated ==
    [][seed_squads' = seed_squads /\ transfer_events' = transfer_events]_vars

\* a call that replayed events into a roster different from the snapshot
C4_Witness ==
    /\ pc = "done"
    /\ squads # seed_squads
    /\ DOMAIN squads # DOMAIN seed_squads

\* C5 (determinism): whatever calls were made before it, a call with the
\* target date and cutoff of the first call returns what the first returned.
C5_Deterministic ==
    (probe.called /\ target_date = probe.target_date /\ cutoff_time = probe.cutoff_time)
        => squads = probe.squads

\* the first call's target asked again by a later call, the roster returned
\* differing from the snapshot
C5_Witness ==
    /\ pc = "again"
    /\ target_date = probe.target_date /\ cutoff_time = probe.cutoff_time
    /\ squads # seed_squads

\* C6 (settlement-day mapping): a timestamp whose hour is strictly below the
\* cutoff hour settles on the previous calendar day, any other on its own
\* calendar day (so does one at exactly cutoff:00); effective_today applies
\* the same rule to the current instant.
C6_SettlementDay ==
    pc = "settled" =>
        /\ stamp.hour < CUTOFF_HOUR_MEZ => settled = stamp.day - 1
        /\ stamp.hour >= CUTOFF_HOUR_MEZ => settled = stamp.day
        /\ today = settled

\* a timestamp at exactly the cutoff hour, settled on its own day
C6_Witness ==
    pc = "settled" /\ stamp.hour = CUTOFF_HOUR_MEZ /\ settled = stamp.day

\* the cache holds a date on or before d for tradable a
HasPast(c, a, d) ==
    /\ a \in DOMAIN c
    /\ \E k \in DOMAIN c[a] : IsIsoDate(k) /\ fromisoformat(k) <= d

\* the value cached for the exact date, else for the latest date before it
NearestPastValue(c, a, d) ==
    IF isoformat(d) \in DOMAIN c[a] THEN c[a][isoformat(d)]
    ELSE LET k == CHOOSE x \in DOMAIN c[a] :
                     /\ IsIsoDate(x) /\ fromisoformat(x) <= d
                     /\ \A y \in DOMAIN c[a] :
                           (IsIsoDate(y) /\ fromisoformat(y) <= d)
                               => fromisoformat(y) <= fromisoformat(x)
         IN  c[a][k]

\* C7 (lookup without fetch): when the cache holds a date on or before the
\* requested date for the asset, the lookup returns the value of the exact
\* date if cached, else of the latest cached date before it, and makes no
\* call to the feed.
C7_LookupWithoutFetch ==
    [][(pc' = "looked" /\ HasPast(cache, asked'[1], asked'[2]))
          => (/\ value' = NearestPastValue(cache, asked'[1], asked'[2])
              /\ fetches' = 0)]_vars

\* a lookup answered from the nearest past date, with an older date of
\* another price cached as well
C7_Witness ==
    /\ pc = "looked" /\ fetches = 0
    /\ asked[1] \in DOMAIN cache
    /\ isoformat(asked[2]) \notin DOMAIN cache[asked[1]]
    /\ \E k1, k2 \in DOMAIN cache[asked[1]] :
          /\ IsIsoDate(k1) /\ IsIsoDate(k2)
          /\ fromisoformat(k1) < fromisoformat(k2) /\ fromisoformat(k2) < asked[2]
          /\ cache[asked[1]][k1] # cache[asked[1]][k2]
          /\ value = cache[asked[1]][k2]

\* C8 (unknown valuation), as claimed: when neither the cache nor the fetch
\* yields a point dated on or before the requested date, the lookup returns
\* a sentinel that is no legitimate value, 0 included.
C8_UnknownSentinel ==
    (pc = "looked" /\ ~HasPast(cache, asked[1], asked[2])) => value \notin Prices

\* C9 (append-only cache), as claimed: a value stored for (asset, date) is
\* never removed and never replaced by another value, whatever the feed
\* returns later.
C9_AppendOnly ==
    [][\A a \in DOMAIN cache : \A k \in DOMAIN cache[a] :
          /\ a \in DOMAIN cache'
          /\ k \in DOMAIN cache'[a]
          /\ cache'[a][k] = cache[a][k]]_vars

\* the roster the ledger uses for debit day d
RosterAt(d) ==
    reconstruct_squads_at_date(seed_date, seed_squads, transfer_events, d, SALARY_CUTOFF_TIME)

SquadAt(d, uid) == IF uid \in DOMAIN RosterAt(d) THEN RosterAt(d)[uid] ELSE {}

\* the values the lookups of the pass returned for tradable a and date day
Quoted(a, day) == {q[3] : q \in {x \in quotes : x[1] = a /\ x[2] = day}}

QuoteOf(a, day) == CHOOSE v \in Quoted(a, day) : TRUE

RECURSIVE SumOf(_, _)
SumOf(f, S) ==
    IF S = {} THEN 0
    ELSE LET x == CHOOSE y \in S : TRUE
         IN  f[x] + SumOf(f, S \ {x})

\* the users a debit day's roster lists, the computer excepted
Payers == UNION {DOMAIN RosterAt(d) : d \in salary_dates} \ {COMPUTER_USER_ID}

\* every asset of a payer's squad was valued once for the day before
AllQuoted ==
    \A d \in salary_dates : \A uid \in Payers : \A a \in SquadAt(d, uid) :
        Cardinality(Quoted(a, d - 1)) = 1

DayFee(uid, d) == (CHOOSE f \in day_fees : f[1] = uid /\ f[2] = d)[3]

\* the users charged on debit day d
Charged(d) == DOMAIN RosterAt(d) \ {COMPUTER_USER_ID}

\* C11 (monotonic fee): on a fee-active day d, if A's reconstructed roster
\* is a superset of B's and no valuation is negative, the fee computed for
\* A on d is at least the fee computed for B on d.
C11_MonotonicFee ==
    pc = "paid" =>
        \A d \in salary_dates : \A A, B \in Charged(d) :
            (/\ RosterAt(d)[B] \subseteq RosterAt(d)[A]
             /\ \A q \in quotes : q[3] >= 0)
                => /\ \E f \in day_fees : f[1] = A /\ f[2] = d
                   /\ \E f \in day_fees : f[1] = B /\ f[2] = d
                   /\ DayFee(A, d) >= DayFee(B, d)

\* a manager whose roster strictly contains another's non-empty roster and
\* who was charged strictly more on that day
C11_Witness ==
    /\ pc = "paid"
    /\ \E d \in salary_dates : \E A, B \in Charged(d) :
          /\ RosterAt(d)[B] # {}
          /\ RosterAt(d)[B] \subseteq RosterAt(d)[A]
          /\ RosterAt(d)[B] # RosterAt(d)[A]
          /\ DayFee(A, d) > DayFee(B, d)
          /\ DayFee(B, d) > SALARY_BASE

\* C12 (system manager excluded): after fetch_all the computer (id 1) is no
\* key of the salary ledger, of the player counts or of the squads returned
\* by get_player_count_today, and no entry of the transfer-delta list is
\* the computer's.
C12_SystemManagerExcluded ==
    pc \in {"fetched", "built"} =>
        /\ COMPUTER_USER_ID \notin DOMAIN salary_by_user
        /\ COMPUTER_USER_ID \notin DOMAIN player_count_by_user_id
        /\ COMPUTER_USER_ID \notin DOMAIN squads
        /\ \A i \in 1..Len(transfer_deltas) : transfer_deltas[i][1] # COMPUTER_USER_ID

\* the computer holds an asset on a debit day and today, other users were
\* charged and counted, and a transfer of the computer's is in the news
C12_Witness ==
    /\ pc = "fetched" /\ outcome = "ok" /\ seed_status = "present"
    /\ \E d \in salary_dates : SquadAt(d, COMPUTER_USER_ID) # {}
    /\ LET squads_today == reconstruct_squads_at_date(seed_date, seed_squads,
                                                      transfer_events, MaxDay, None)
       IN  COMPUTER_USER_ID \in DOMAIN squads_today /\ squads_today[COMPUTER_USER_ID] # {}
    /\ \E i \in 1..Len(news) :
          /\ IsTransfer(news[i]) /\ ~OlderThanSince(news[i], since_date)
          /\ COMPUTER_USER_ID \in {news[i][3], news[i][4]}
    /\ salary_by_user # NoBalances /\ player_count_by_user_id # NoBalances
    /\ transfer_deltas # << >>

\* C13 (authoritative balance precedence): a manager for whom the provider
\* supplies a balance (balance_from_api of the standings row, or user.budget
\* of the logged-in user) gets exactly that figure as balance, also when a
\* news-derived balance exists for the same manager.
C13_AuthoritativePrecedence ==
    pc = "built" =>
        \A m \in LeagueManagers :
            /\ standings[m] # None => balance[m] = standings[m][1]
            /\ (user_info # None /\ user_info[1] = m) => balance[m] = user_info[2]

\* the entries of the feed that count for the season
InSeason == {i \in 1..Len(news) : ~OlderThanSince(news[i], since_date)}

\* signed sum of the manager's transfer prices: + when selling, - when buying
NetTransferDelta(m) ==
    SumOf([i \in InSeason |->
              IF ~IsTransfer(news[i]) THEN 0
              ELSE (IF news[i][3] = m THEN news[i][6] ELSE 0)
                   - (IF news[i][4] = m THEN news[i][6] ELSE 0)],
          InSeason)

\* the fees of the salary ledger
LedgerFee(m) == IF m \in DOMAIN salary_by_user THEN salary_by_user[m] ELSE 0

Authoritative(m) == standings[m] # None \/ (user_info # None /\ user_info[1] = m)

C15_SnapshotUnavailable ==
    seed_status = "missing" =>
        /\ outcome # "raised"
        /\ pc = "built" =>
              \A m \in LeagueManagers :
                  ~Authoritative(m) => balance[m] = START_BUDGET + NetTransferDelta(m)

\* C16 (SnapshotMalformed): with a snapshot file that cannot be parsed the
\* request does not abort; it takes the fallback of the missing snapshot
\* and returns balances.
C16_SnapshotMalformed ==
    (seed_status = "malformed" /\ pc # "idle") => outcome = "ok"

\* C17 (ProviderFetchFailure): when the provider is down, refreshing the
\* news cache raises no exception and leaves the cache file as it was, and
\* a valuation lookup returns with every cached row as it was.
C17_ProviderFetchFailure ==
    [][~feed_ok =>
          /\ pc' = "news" => (outcome' = "ok" /\ news_cache' = news_cache)
          /\ pc' = "warm" => \A a \in DOMAIN cache : cache'[a] = cache[a]]_vars

\* the instant a target stands for: the cutoff instant of the date, or the
\* end of the date when no cutoff time is given
AtOrBeforeTarget(t, td, ct) ==
    IF ct = None THEN DateOf(t) <= td
    ELSE WallHours(to_naive_berlin(t)) <= WallHours(Combine(td, ct))

\* the roster after applying, in ascending order, the events after the
\* anchor date and at or before the target instant
ForwardRosterClaimed ==
    LET keep(e) == DateOf(e[1]) > seed_date /\ AtOrBeforeTarget(e[1], target_date, cutoff_time)
        h == squads_copy(HeapOf(seed_squads, transfer_events), "seed_squads", "squads")
    IN  Deref(ApplyAll(h, SortAsc(SelectSeq(transfer_events, keep))), "squads")

\* C18 (forward replay selection): for a target at or after the anchor the
\* events applied are exactly those with anchor_date < event_time <=
\* target_instant, in ascending timestamp order; an event stamped exactly
\* at the cutoff instant of a (date, cutoff_time) target is applied.
C18_ForwardSelection ==
    (pc = "done" /\ target_date >= seed_date) => squads = ForwardRosterClaimed

\* the roster after undoing, newest first, the events after the target
\* instant and on or before the anchor date
BackwardRosterClaimed ==
    LET keep(e) == /\ ~AtOrBeforeTarget(e[1], target_date, cutoff_time)
                   /\ DateOf(e[1]) <= seed_date
        h == squads_copy(HeapOf(seed_squads, transfer_events), "seed_squads", "squads")
    IN  Deref(UndoAll(h, SortDesc(SelectSeq(transfer_events, keep))), "squads")

\* C19 (backward replay honours the cutoff): for a (date, cutoff_time)
\* target before the anchor the events undone are exactly those with
\* target_instant < event_time <= anchor_date, so an event on the target
\* date after the cutoff time is undone.
C19_BackwardCutoff ==
    (pc = "done" /\ target_date < seed_date /\ cutoff_time # None)
        => squads = BackwardRosterClaimed

\* C20 (tie ordering): the order backward replay undoes the selected events
\* in is the exact reverse of the ascending order forward replay would
\* apply them in, events of one timestamp included.
C20_TieOrdering ==
    (pc = "done" /\ target_date < seed_date) =>
        LET events == BackwardEvents(seed_date, transfer_events, target_date)
        IN  SortDesc(events) = Reverse(SortAsc(events))

\* the roster of a bare-date call when the day of an event is its
\* settlement date: forward the events with anchor < day <= target, backward
\* those with target < day <= anchor
SettlementDayRosterClaimed ==
    LET fwd(e) == /\ transfer_settlement_date(e[1]) > seed_date
                  /\ transfer_settlement_date(e[1]) <= target_date
        bwd(e) == /\ transfer_settlement_date(e[1]) > target_date
                  /\ transfer_settlement_date(e[1]) <= seed_date
        h == squads_copy(HeapOf(seed_squads, transfer_events), "seed_squads", "squads")
    IN  IF target_date >= seed_date
        THEN Deref(ApplyAll(h, SortAsc(SelectSeq(transfer_events, fwd))), "squads")
        ELSE Deref(UndoAll(h, SortDesc(SelectSeq(transfer_events, bwd))), "squads")

\* C21 (uniform day attribution): the day the reconstruction compares with
\* the anchor date and the target date to place an event in the replay
\* window is the event's settlement date (the previous day for a timestamp
\* before the cutoff hour), the day the event fetch filters by.
C21_UniformDayAttribution ==
    (pc = "done" /\ cutoff_time = None) => squads = SettlementDayRosterClaimed

\* the events the last call replayed, in the order it replayed them
Replayed ==
    IF target_date >= seed_date
    THEN SortAsc(ForwardEvents(seed_date, transfer_events, target_date, cutoff_time))
    ELSE SortDesc(BackwardEvents(seed_date, transfer_events, target_date))

\* the manager an event takes the asset from and the one it gives it to, in
\* the direction of the last call
TakenFrom(e) == IF target_date >= seed_date THEN e[2] ELSE e[3]
GivenTo(e) == IF target_date >= seed_date THEN e[3] ELSE e[2]

\* the roster after the events one by one: the giver's set loses the asset
\* if it holds it and is unchanged otherwise, the receiver's set gains it,
\* and a manager without a key gets one
RECURSIVE MovedAll(_, _)
MovedAll(sq, s) ==
    IF s = << >> THEN sq
    ELSE MovedAll(Moved(sq, TakenFrom(Head(s)), GivenTo(Head(s)), Head(s)[4]), Tail(s))

\* the sequence without its k-th element
Without(s, k) == SubSeq(s, 1, k - 1) \o SubSeq(s, k + 1, Len(s))

\* C22 (inconsistent-log policy, idempotent application): every call returns
\* a roster; an event whose asset its source does not hold leaves the
\* source's set as it was and still puts the asset into the destination's
\* set, also for manager ids that are no key of the snapshot; and a log that
\* replays one event twice in a row gives the roster it gives with the
\* event replayed once.
C22_InconsistentLogPolicy ==
    pc = "done" =>
        /\ squads = MovedAll(seed_squads, Replayed)
        /\ \A k \in 1..Len(Replayed) :
              {TakenFrom(Replayed[k]), GivenTo(Replayed[k])} \subseteq DOMAIN squads
        /\ \A k \in 1..(Len(Replayed) - 1) :
              Replayed[k] = Replayed[k + 1]
                  => squads = MovedAll(seed_squads, Without(Replayed, k + 1))

\* a forward call that replayed one event twice in a row, the event's source
\* being no key of the snapshot and not holding the asset
C22_Witness ==
    /\ pc = "done" /\ target_date > seed_date
    /\ Len(Replayed) >= 2
    /\ Replayed[1] = Replayed[2]
    /\ Replayed[1][2] \notin DOMAIN seed_squads
    /\ Replayed[1][2] \in DOMAIN squads /\ squads[Replayed[1][2]] = {}
    /\ Replayed[1][4] \in squads[Replayed[1][3]]
    /\ Replayed[1][4] \notin seed_squads[Replayed[1][3]]

\* the prices the history returns for date d
ReturnedFor(hist, d) == {hist[i][2] : i \in {j \in 1..Len(hist) : hist[j][1] = d}}

\* the keys of the dates of the history
HistKeys(hist) == {isoformat(hist[i][1]) : i \in 1..Len(hist)}

\* C23 (fetch on miss): when the cache holds no date on or before the
\* requested date for the asset, the lookup calls the feed exactly once, for
\* that asset; every returned point is stored in the asset's row, the other
\* keys of the row and the rows of the other assets stay as they were; and
\* the answer is the exact or nearest-past value of the merged row.
C23_FetchOnMiss ==
    [][(pc' = "looked" /\ ~HasPast(cache, asked'[1], asked'[2])) =>
          LET a == asked'[1]
              d == asked'[2]
              hist == provider[a]
              old == IF a \in DOMAIN cache THEN cache[a] ELSE EmptyRow
          IN  /\ fetches' = 1
              /\ fetched' = Append(fetched, a)
              /\ DOMAIN cache' = DOMAIN cache \cup {a}
              /\ \A b \in DOMAIN cache \ {a} : cache'[b] = cache[b]
              /\ DOMAIN cache'[a] = DOMAIN old \cup HistKeys(hist)
              /\ \A i \in 1..Len(hist) :
                    cache'[a][isoformat(hist[i][1])] \in ReturnedFor(hist, hist[i][1])
              /\ \A k \in DOMAIN old \ HistKeys(hist) : cache'[a][k] = old[k]
              /\ HasPast(cache', a, d) => value' = NearestPastValue(cache', a, d)]_vars

\* a lookup that fetched: the row kept a later date it held, gained an
\* earlier point of the history and answered with that point's price, and
\* another asset has a row of its own
C23_Witness ==
    /\ pc = "looked" /\ fetches = 1
    /\ Len(provider[asked[1]]) >= 1
    /\ provider[asked[1]][1][1] < asked[2]
    /\ value = provider[asked[1]][1][2] /\ value # 0
    /\ \E k \in DOMAIN cache[asked[1]] \ HistKeys(provider[asked[1]]) :
          IsIsoDate(k) /\ fromisoformat(k) > asked[2]
    /\ \E b \in DOMAIN cache \ {asked[1]} : cache[b] # EmptyRow

\* the row the pass loaded for tradable a
LoadedRow(a) ==
    IF a \in DOMAIN load_quote_cache(quote_cache_file)
    THEN load_quote_cache(quote_cache_file)[a]
    ELSE EmptyRow

\* the price of the last point the history returns for date d
LastFor(hist, d) ==
    hist[CHOOSE i \in 1..Len(hist) :
            /\ hist[i][1] = d
            /\ \A j \in 1..Len(hist) : hist[j][1] = d => j <= i][2]

\* the row with the points of the history merged into it once
MergedOnce(row, hist) ==
    [k \in DOMAIN row \cup HistKeys(hist) |->
        IF k \in HistKeys(hist) THEN LastFor(hist, fromisoformat(k)) ELSE row[k]]

\* the tradables whose history the pass fetched
Fetched == {fetched[i] : i \in 1..Len(fetched)}

\* C24 (merges are idempotent and order-independent): however often the
\* history of an asset was merged, and in whatever order the histories of
\* the assets were merged, the row of an asset whose history was merged is
\* the loaded row with the history merged once, and every other row is as
\* loaded.
C24_MergeIdempotentAnyOrder ==
    \A a \in Assets :
        IF a \in Fetched
        THEN a \in DOMAIN cache /\ cache[a] = MergedOnce(LoadedRow(a), provider[a])
        ELSE /\ a \in DOMAIN cache <=> a \in DOMAIN load_quote_cache(quote_cache_file)
             /\ a \in DOMAIN cache => cache[a] = LoadedRow(a)

\* the history of one asset merged, then that of another, then the first
\* again, the merge having replaced a price of the loaded row
C24_Witness ==
    /\ pc = "looked"
    /\ \E i, j, k \in 1..Len(fetched) :
          i < j /\ j < k /\ fetched[i] = fetched[k] /\ fetched[j] # fetched[i]
    /\ \A a \in Assets : provider[a] # << >>
    /\ \E a \in Fetched : \E x \in DOMAIN LoadedRow(a) :
          x \in DOMAIN cache[a] /\ cache[a][x] # LoadedRow(a)[x]

\* the cache file is valid for the request at time t: same query key and
\* strictly younger than the TTL
ValidFor(nc, url, since, t) ==
    IF nc = None THEN FALSE
    ELSE /\ nc.news_url = url /\ nc.since_date = since
         /\ t - nc.ts < NEWS_CACHE_TTL_SECONDS

\* C25 (event-log cache validity): the cached log is used only while
\* now - fetched_at < ttl (strictly) and the stored query key is the
\* request's; at now - fetched_at >= ttl or on another key the call reads
\* the feed and writes the file anew from what it read, nothing of the old
\* entry kept.
C25_EventLogCacheValidity ==
    [][pc' = "news" =>
          /\ ValidFor(news_cache, "news_url", since_date, clock) =>
                /\ outcome' = "ok"
                /\ news_cache' = news_cache
                /\ transfer_deltas' = news_cache.transfer_deltas
                /\ salary_dates' = news_cache.salary_active_dates
          /\ (~ValidFor(news_cache, "news_url", since_date, clock) /\ feed_ok) =>
                news_cache' =
                    NewsPayload("news_url", since_date, clock,
                                get_news_transfer_deltas_since(news, since_date),
                                get_news_transfer_events_since(news, since_date),
                                get_news_salary_active_dates_since(news, since_date),
                                IF seed_status # "missing" THEN None
                                ELSE get_news_balance_deltas_since(news, since_date))]_vars

----------------------------------------------------------------------------
(* Two fetch_all passes on one quote cache file: get_league is a plain def, *)
(* so two requests that find the overview cache cold run their passes on    *)
(* two worker threads.  Each pass loads the file, looks values up (a fetch  *)
(* appends to its own dict) and writes the file from its dict.              *)

Passes == {1, 2}

\* the histories of the feed: one point per tradable
PassProvider == (7 :> <<<<0, 100500>>>>) @@ (8 :> <<<<1, 0>>>>)

InitPasses ==
    /\ quote_cache_file \in {None, save_quote_cache(7 :> (isoformat(2) :> 0))}
    /\ passes = [p \in Passes |->
                    [pc |-> "start", cache |-> NoDict, lookups |-> 0, appended |-> {}]]
    /\ provider = PassProvider
    /\ cache = NoDict /\ asked = <<0, 0>> /\ value = 0 /\ fetches = 0
    /\ fetched = << >>
    /\ pc = "idle"
    /\ IdleRecon /\ IdleSettle /\ IdleLedger /\ IdleBalance /\ IdleNews

\* quote_cache = _load_quote_cache(quote_cache_path)
LoadQuoteCache(p) ==
    /\ passes[p].pc = "start"
    /\ passes' = [passes EXCEPT ![p].pc = "loaded",
                                ![p].cache = load_quote_cache(quote_cache_file)]
    /\ UNCHANGED <<quote_cache_file, fetched, pc, reconVars, settleVars, cacheVars,
                   ledgerVars, balanceVars, newsVars>>

\* a lookup of the pass: what a fetch stores in the row of the tradable is
\* appended to the dict of the pass
PassLookup(p, a, d) ==
    /\ passes[p].pc = "loaded"
    /\ passes[p].lookups < MaxPassLookups
    /\ \E r \in {get_value_for_date(a, d, passes[p].cache, provider[a])} :
          passes' = [passes EXCEPT
                        ![p].cache = r.cache,
                        ![p].lookups = @ + 1,
                        ![p].appended =
                            IF r.fetches = 0 THEN @
                            ELSE @ \cup {<<a, isoformat(provider[a][i][1]),
                                           r.cache[a][isoformat(provider[a][i][1])]>> :
                                            i \in 1..Len(provider[a])}]
    /\ UNCHANGED <<quote_cache_file, fetched, pc, reconVars, settleVars, cacheVars,
                   ledgerVars, balanceVars, newsVars>>

\* _save_quote_cache(quote_cache_path, quote_cache)
SaveQuoteCache(p) ==
    /\ passes[p].pc = "loaded"
    /\ quote_cache_file' = save_quote_cache(passes[p].cache)
    /\ passes' = [passes EXCEPT ![p].pc = "saved"]
    /\ UNCHANGED <<fetched, pc, reconVars, settleVars, cacheVars, ledgerVars,
                   balanceVars, newsVars>>

NextPasses ==
    \E p \in Passes :
        \/ LoadQuoteCache(p)
        \/ \E a \in Assets, d \in Days : PassLookup(p, a, d)
        \/ SaveQuoteCache(p)

SpecPasses == InitPasses /\ [][NextPasses]_vars

\* C26 (no lost updates), as claimed: when both passes have loaded the
\* persisted quote cache, appended what they fetched and saved it, the
\* persisted cache holds every entry either pass appended.
C26_NoLostUpdates ==
    (\A p \in Passes : passes[p].pc = "saved") =>
        \A p \in Passes : \A e \in passes[p].appended :
            /\ e[1] \in DOMAIN load_quote_cache(quote_cache_file)
            /\ e[2] \in DOMAIN load_quote_cache(quote_cache_file)[e[1]]
            /\ load_quote_cache(quote_cache_file)[e[1]][e[2]] = e[3]

\* C27 (asset conservation): whatever the log and the target, every asset
\* some manager holds in the snapshot is held by at least one manager of
\* the reconstructed roster, and every manager key of the snapshot is a key
\* of the roster.
C27_AssetConservation ==
    pc = "done" =>
        /\ \A a \in Assets : Holders(seed_squads, a) # {} => Holders(squads, a) # {}
        /\ DOMAIN seed_squads \subseteq DOMAIN squads

\* a backward call on a log that is not well-formed: the asset went from
\* its holder in the snapshot to a manager the snapshot has no key for
C27_Witness ==
    /\ pc = "done" /\ target_date < seed_date
    /\ ~WellFormed(seed_date, seed_squads, transfer_events)
    /\ \E a \in Assets :
          /\ Holders(seed_squads, a) # {}
          /\ Holders(squads, a) # {}
          /\ Holders(squads, a) \cap DOMAIN seed_squads = {}

----------------------------------------------------------------------------
(* Forward replay in two legs: the roster of a bare date D1 on or after the *)
(* anchor is taken as the snapshot of D1 and replayed to a bare date D2 on  *)
(* or after D1, with the same event list.                                   *)

\* the anchor is the first day, so that days lie between it and the last;
\* a bare-date call reads the date of a timestamp only, whatever its zone
InitCompose ==
    /\ seed_date = 0
    /\ seed_squads \in Snapshots
    /\ transfer_events \in LogsUpTo(MaxEvents, "naive")
    /\ target_date = 0
    /\ cutoff_time = None
    /\ squads = NoDict
    /\ probe = NoProbe
    /\ pc = "idle"
    /\ IdleSettle /\ IdleCache /\ IdleLedger /\ IdleBalance /\ IdleNews /\ IdlePasses

\* reconstruct_squads_at_date(D1, roster at D1, transfer_events, D2)
Compose ==
    /\ pc = "done"
    /\ cutoff_time = None
    /\ target_date >= seed_date
    /\ \E d2 \in Days :
          /\ d2 >= target_date
          /\ LET h == ReconstructHeap(target_date, HeapOf(squads, transfer_events), d2, None)
             IN  /\ squads' = Deref(h, "squads")
                 /\ transfer_events' = h.lists["transfer_events"]
          /\ target_date' = d2
    /\ pc' = "composed"
    /\ UNCHANGED <<seed_date, seed_squads, cutoff_time, probe, settleVars, cacheVars,
                   ledgerVars, balanceVars, newsVars, passVars>>

NextCompose == Call \/ Compose

SpecCompose == InitCompose /\ [][NextCompose]_vars

\* C28 (forward replay composes): for bare dates anchor <= D1 <= D2, the
\* roster of D2 reconstructed from the roster of D1 taken as the snapshot
\* of D1 is the roster of D2 reconstructed from the original snapshot.
C28_ForwardComposes ==
    pc = "composed" =>
        squads = reconstruct_squads_at_date(seed_date, seed_squads, transfer_events,
                                            target_date, None)

\* both legs replayed an event: D1 lies strictly between the anchor and D2,
\* the roster of D1 differs from the snapshot and that of D2 from both
C28_Witness ==
    /\ pc = "composed"
    /\ seed_date < probe.target_date /\ probe.target_date < target_date
    /\ probe.squads # seed_squads
    /\ squads # probe.squads
    /\ squads # seed_squads

\* what the lookup returns on the cache as the pass loaded it, no other
\* lookup made before
ValueOnLoaded(a, d) ==
    get_value_for_date(a, d, load_quote_cache(quote_cache_file), provider[a]).value

\* C29 (lookup-order independence), as claimed: for a fixed provider history
\* and loaded cache, the value a lookup returns for (asset, date) is the
\* value it returns when it is the first lookup of the pass, whatever
\* lookups were made before it.
C29_LookupOrderIndependent ==
    pc = "looked" => value = ValueOnLoaded(asked[1], asked[2])

----------------------------------------------------------------------------
(* Two requests on one feed: the first finds no valid news cache and writes *)
(* the file, the second comes later and may be answered from the file.      *)

\* transfer news stamped in zone z ("utc": the feed gives "...Z" dates, which
\* _parse_news_entry_date turns into aware datetimes)
ZonedTransferNews(z) ==
    {<<"TRANSACTION_TRANSFER", DateTime(d, h, z), m[1], m[2], a, NewsPrice(DateTime(d, h, z))>> :
        d \in Days, h \in Hours, m \in NewsMoves, a \in TradedAssets}

\* feeds of one zone: up to n transfer entries, newest first, and the salary
\* debits of the days 1..MaxDay
ZonedFeeds(n) ==
    {t \o SalaryNews(MaxDay) :
        t \in UNION {{s \in UNION {[1..j -> ZonedTransferNews(z)] : j \in 0..n} :
                        \A i \in 1..(Len(s) - 1) : WallHours(s[i][2]) >= WallHours(s[i + 1][2])} :
                     z \in Zones}}

\* no cache file, or one that expired
InitRefresh ==
    /\ news \in ZonedFeeds(MaxNews)
    /\ news_cache \in {nc \in NewsCaches : nc = None \/ nc.news_url = "news_url"}
    /\ clock = NEWS_CACHE_TTL_SECONDS + 1
    /\ feed_ok = TRUE
    /\ seed_status \in {"present", "missing"}
    /\ cache = NoDict /\ provider = NoDict
    /\ asked = <<0, 0>> /\ value = 0 /\ fetches = 0
    /\ standings = NoDict /\ user_info = None
    /\ transfer_deltas = << >> /\ balance_by_user_id = NoDict
    /\ player_count_by_user_id = NoDict /\ balance = NoDict /\ outcome = "none"
    /\ pc = "idle"
    /\ IdleRecon /\ IdleSettle /\ IdleLedger /\ IdlePasses

\* the seconds between the two requests
Elapsed == {1, NEWS_CACHE_TTL_SECONDS + 1}

\* _get_cached_news_data of the second request
GetCachedNewsAgain ==
    /\ pc = "news"
    /\ outcome = "ok"
    /\ \E e \in Elapsed :
          /\ clock' = clock + e
          /\ \E r \in {get_cached_news_data(news_cache, news, "news_url", since_date,
                                            clock + e, feed_ok, seed_status # "missing")} :
                /\ outcome' = r.outcome
                /\ news_cache' = r.file
                /\ transfer_deltas' = r.deltas
                /\ transfer_events' = r.events
                /\ salary_dates' = r.active
    /\ pc' = "news2"
    /\ UNCHANGED <<seed_date, seed_squads, target_date, cutoff_time, squads, probe,
                   settleVars, cacheVars, salary_by_user, quotes, day_fees, news,
                   seed_status, standings, user_info, balance_by_user_id,
                   player_count_by_user_id, balance, feed_ok, passVars>>

NextRefresh == GetCachedNews \/ GetCachedNewsAgain

SpecRefresh == InitRefresh /\ [][NextRefresh]_vars

\* the instant of an event as the reconstruction reads it, and the rest of
\* the event
Instants(events) ==
    [i \in 1..Len(events) |->
        <<WallHours(to_naive_berlin(events[i][1])), events[i][2], events[i][3], events[i][4]>>]

\* the second request was answered from the file the first one wrote
AnsweredFromCache == pc = "news2" /\ outcome = "ok" /\ news_cache.ts # clock

\* C30 (cached and fresh event logs are equivalent), as claimed: on a cache
\* hit the transfer events (the instant of each and their order), the
\* fee-active days and the transfer deltas are those the fetch that wrote
\* the cache returned.
C30_CachedEqualsFresh ==
    AnsweredFromCache =>
        /\ Instants(transfer_events) =
              Instants(get_news_transfer_events_since(news, since_date))
        /\ salary_dates = get_news_salary_active_dates_since(news, since_date)
        /\ transfer_deltas = get_news_transfer_deltas_since(news, since_date)

====
